---- MODULE Spec2Model ----
(***************************************************************************)
(* Task dependency graph engine of the Virtual-manager backend:            *)
(*   backend/app/core/dag.py       DAGManager                              *)
(*   backend/app/task_service.py   TaskService                             *)
(*   backend/app/models.py         Task, TaskDependency, TaskStatus        *)
(* The database is the state: the tasks table (status and project of each  *)
(* task) and the task_dependencies table (a bag of rows, since no unique   *)
(* constraint covers the pair task_id / depends_on_id).                    *)
(***************************************************************************)
EXTENDS Integers, Sequences, FiniteSets, Bags, TLC

\* ------------------------------------------------------------------------
\* Universe of the model
\* ------------------------------------------------------------------------

\* The task ids (primary keys) a caller may name; a task exists once
\* create_task has inserted its row.
TaskIds == {"A", "B", "C"}

\* The order in which a query without ORDER BY returns rows (primary key).
IdOrder == <<"A", "B", "C">>

Projects == {"p1", "p2"}

\* At most this many rows in task_dependencies.
MaxDeps == 3

\* Request-handling workers of the concurrent specification.
Workers == {"w1", "w2"}

\* models.TaskStatus
NOT_STARTED == "not_started"
IN_PROGRESS == "in_progress"
BLOCKED     == "blocked"
COMPLETED   == "completed"
CANCELLED   == "cancelled"

TaskStatus == {NOT_STARTED, IN_PROGRESS, BLOCKED, COMPLETED, CANCELLED}

VARIABLES
    tasks,   \* tasks table: id -> [status, project_id], for the existing ids
    deps,    \* task_dependencies table: bag of <<task_id, depends_on_id>>
    ret,     \* what the last call returned (or raised)
    calls    \* concurrent specification: the add_dependency call of each worker

vars == <<tasks, deps, ret, calls>>

\* ------------------------------------------------------------------------
\* Queries
\* ------------------------------------------------------------------------

\* db.query(Task).filter(Task.id == id).first() is not None
Exists(tk, id) == id \in DOMAIN tk

\* number of rows with task_id = t and depends_on_id = d
Rows(dp, t, d) == CopiesIn(<<t, d>>, dp)

\* The rows as a set of edges blocked -> blocker.
Edges(dp) == BagToSet(dp)

\* db.query(TaskDependency).filter(TaskDependency.task_id == t).all(),
\* as the set of depends_on_id values
BlockersOf(dp, t) == {e[2] : e \in {x \in Edges(dp) : x[1] = t}}

\* db.query(TaskDependency).filter(TaskDependency.depends_on_id == t).all(),
\* as the set of task_id values
DependentsOf(dp, t) == {e[1] : e \in {x \in Edges(dp) : x[2] = t}}

\* n copies of x, as a list
RECURSIVE Repeat(_, _)
Repeat(x, n) == IF n = 0 THEN <<>> ELSE <<x>> \o Repeat(x, n - 1)

\* task.dependencies of task t as the list of depends_on_id, one per row
RECURSIVE DepList(_, _, _)
DepList(dp, t, i) ==
    IF i > Len(IdOrder) THEN <<>>
    ELSE Repeat(IdOrder[i], Rows(dp, t, IdOrder[i])) \o DepList(dp, t, i + 1)

\* db.query(Task).filter(Task.project_id == p).all(), as the list of ids
RECURSIVE ProjectTasks(_, _, _)
ProjectTasks(tk, p, i) ==
    IF i > Len(IdOrder) THEN <<>>
    ELSE (IF Exists(tk, IdOrder[i]) /\ tk[IdOrder[i]].project_id = p
          THEN <<IdOrder[i]>> ELSE <<>>) \o ProjectTasks(tk, p, i + 1)

SeqToSet(s) == {s[i] : i \in 1..Len(s)}

\* ------------------------------------------------------------------------
\* DAGManager.build_graph / detect_cycles
\* ------------------------------------------------------------------------

\* graph[task.id] = [d.depends_on_id for d in task.dependencies], for the
\* tasks of the list; a new_dependency of <<>> is None
build_graph(dp, taskList, new_dependency) ==
    [t \in SeqToSet(taskList) \cup
           (IF new_dependency = <<>> THEN {} ELSE {new_dependency[1]}) |->
        (IF t \in SeqToSet(taskList) THEN DepList(dp, t, 1) ELSE <<>>)
        \o (IF new_dependency # <<>> /\ new_dependency[1] = t
            THEN <<new_dependency[2]>> ELSE <<>>)]

\* graph.get(node, [])
Neighbors(graph, node) == IF node \in DOMAIN graph THEN graph[node] ELSE <<>>

\* dfs(node) of detect_cycles: the result carries the visited set, which the
\* code keeps in a closure; recursion_stack is the path to the node.
RECURSIVE dfs(_, _, _, _), dfsLoop(_, _, _, _, _)
dfs(graph, node, visited, recursion_stack) ==
    dfsLoop(graph, Neighbors(graph, node), 1,
            visited \cup {node}, recursion_stack \cup {node})

\* dfsLoop without the recursion stack: a neighbour seen before is a cycle.
dfsLoop_NoStack(graph, neighbors, i, visited, recursion_stack) ==
    IF i > Len(neighbors) THEN [cycle |-> FALSE, visited |-> visited]
    ELSE IF neighbors[i] \notin visited
         THEN LET r == dfs(graph, neighbors[i], visited, recursion_stack)
              IN  IF r.cycle THEN r
                  ELSE dfsLoop(graph, neighbors, i + 1, r.visited, recursion_stack)
         ELSE [cycle |-> TRUE, visited |-> visited]

dfsLoop(graph, neighbors, i, visited, recursion_stack) ==
    IF i > Len(neighbors) THEN [cycle |-> FALSE, visited |-> visited]
    ELSE IF neighbors[i] \notin visited
         THEN LET r == dfs(graph, neighbors[i], visited, recursion_stack)
              IN  IF r.cycle THEN r
                  ELSE dfsLoop(graph, neighbors, i + 1, r.visited, recursion_stack)
         ELSE IF neighbors[i] \in recursion_stack
              THEN [cycle |-> TRUE, visited |-> visited]
              ELSE dfsLoop(graph, neighbors, i + 1, visited, recursion_stack)

\* for node in graph: if node not in visited: if dfs(node): return True
RECURSIVE detectLoop(_, _, _, _)
detectLoop(graph, nodes, i, visited) ==
    IF i > Len(nodes) THEN FALSE
    ELSE IF nodes[i] \in visited THEN detectLoop(graph, nodes, i + 1, visited)
         ELSE LET r == dfs(graph, nodes[i], visited, {})
              IN  r.cycle \/ detectLoop(graph, nodes, i + 1, r.visited)

detect_cycles(dp, taskList, new_dependency) ==
    LET graph == build_graph(dp, taskList, new_dependency)
        nodes == taskList \o
                 (IF new_dependency # <<>> /\ new_dependency[1] \notin SeqToSet(taskList)
                  THEN <<new_dependency[1]>> ELSE <<>>)
    IN  detectLoop(graph, nodes, 1, {})

\* ------------------------------------------------------------------------
\* DAGManager.topological_sort
\* ------------------------------------------------------------------------

\* dfs(node) of topological_sort: st is the pair of the closure's visited
\* set and stack list.
RECURSIVE topo_dfs(_, _, _), topo_dfsLoop(_, _, _, _)

\* topo_dfs that appends the node before it visits the neighbours.
topo_dfs_PreOrder(graph, node, st) ==
    topo_dfsLoop(graph, Neighbors(graph, node), 1,
                 [visited |-> st.visited \cup {node},
                  stack   |-> Append(st.stack, node)])

topo_dfs(graph, node, st) ==
    LET r == topo_dfsLoop(graph, Neighbors(graph, node), 1,
                          [visited |-> st.visited \cup {node}, stack |-> st.stack])
    IN  [visited |-> r.visited, stack |-> Append(r.stack, node)]

topo_dfsLoop(graph, neighbors, i, st) ==
    IF i > Len(neighbors) THEN st
    ELSE topo_dfsLoop(graph, neighbors, i + 1,
                      IF neighbors[i] \notin st.visited
                      THEN topo_dfs(graph, neighbors[i], st)
                      ELSE st)

\* for node in graph: if node not in visited: dfs(node)
RECURSIVE topoLoop(_, _, _, _)
topoLoop(graph, nodes, i, st) ==
    IF i > Len(nodes) THEN st
    ELSE topoLoop(graph, nodes, i + 1,
                  IF nodes[i] \notin st.visited
                  THEN topo_dfs(graph, nodes[i], st)
                  ELSE st)

topological_sort(dp, taskList) ==
    topoLoop(build_graph(dp, taskList, <<>>), taskList, 1,
             [visited |-> {}, stack |-> <<>>]).stack

\* ------------------------------------------------------------------------
\* Return values
\* ------------------------------------------------------------------------

\* A call's result: the dict, tuple or exception of the handler, flattened.
\*   error/message  the "error" and "message" keys (or the exception)
\*   blocked_status add_dependency's "blocked_status"
\*   unblocked      update_downstream_status's "unblocked_tasks" (ids)
\*   names          the blocker names validate_status_change joins
\*   cycle          detect_cycles's boolean
\*   order          topological_sort's list
NoRet ==
    [op |-> "none", success |-> FALSE, error |-> "",
     message |-> "", blocked_status |-> "", unblocked |-> <<>>, names |-> <<>>,
     cycle |-> FALSE, order |-> <<>>, input |-> <<>>]

Ok(op) == [NoRet EXCEPT !.op = op, !.success = TRUE]

Err(op, error, message) ==
    [NoRet EXCEPT !.op = op, !.error = error, !.message = message]

MSG_SELF  == "Task cannot depend on itself"
MSG_CYCLE == "Adding this dependency would create a circular reference"

\* ------------------------------------------------------------------------
\* DAGManager.add_dependency
\* ------------------------------------------------------------------------

\* add_dependency_check with the existence checks ahead of the self-reference
\* check.
add_dependency_check_M(tk, dp, blocker_id, blocked_id) ==
    LET op   == "add_dependency"
    IN
    IF ~Exists(tk, blocker_id) THEN Err(op, "blocker_not_found", "")
    ELSE IF ~Exists(tk, blocked_id) THEN Err(op, "blocked_not_found", "")
    ELSE IF blocker_id = blocked_id THEN Err(op, "cycle_detected", MSG_SELF)
    ELSE IF Rows(dp, blocked_id, blocker_id) > 0
         THEN Err(op, "dependency_exists", "")
    ELSE IF detect_cycles(dp, ProjectTasks(tk, tk[blocked_id].project_id, 1),
                          <<blocked_id, blocker_id>>)
         THEN Err(op, "cycle_detected", MSG_CYCLE)
    ELSE Ok(op)

\* add_dependency_check without the query for an existing row.
add_dependency_check_NoDup(tk, dp, blocker_id, blocked_id) ==
    LET op   == "add_dependency"
    IN
    IF blocker_id = blocked_id THEN Err(op, "cycle_detected", MSG_SELF)
    ELSE IF ~Exists(tk, blocker_id) THEN Err(op, "blocker_not_found", "")
    ELSE IF ~Exists(tk, blocked_id) THEN Err(op, "blocked_not_found", "")
    ELSE IF detect_cycles(dp, ProjectTasks(tk, tk[blocked_id].project_id, 1),
                          <<blocked_id, blocker_id>>)
         THEN Err(op, "cycle_detected", MSG_CYCLE)
    ELSE Ok(op)

\* add_dependency_check without the call of detect_cycles.
add_dependency_check_NoCycle(tk, dp, blocker_id, blocked_id) ==
    LET op   == "add_dependency"
    IN
    IF blocker_id = blocked_id THEN Err(op, "cycle_detected", MSG_SELF)
    ELSE IF ~Exists(tk, blocker_id) THEN Err(op, "blocker_not_found", "")
    ELSE IF ~Exists(tk, blocked_id) THEN Err(op, "blocked_not_found", "")
    ELSE IF Rows(dp, blocked_id, blocker_id) > 0
         THEN Err(op, "dependency_exists", "")
    ELSE Ok(op)

\* Lines 149-184: the validation, up to and including the cycle check. The
\* result is the error dict, or success = TRUE when the edge may be created.
add_dependency_check(tk, dp, blocker_id, blocked_id) ==
    LET op   == "add_dependency"
    IN
    IF blocker_id = blocked_id THEN Err(op, "cycle_detected", MSG_SELF)
    ELSE IF ~Exists(tk, blocker_id) THEN Err(op, "blocker_not_found", "")
    ELSE IF ~Exists(tk, blocked_id) THEN Err(op, "blocked_not_found", "")
    ELSE IF Rows(dp, blocked_id, blocker_id) > 0
         THEN Err(op, "dependency_exists", "")
    ELSE IF detect_cycles(dp, ProjectTasks(tk, tk[blocked_id].project_id, 1),
                          <<blocked_id, blocker_id>>)
         THEN Err(op, "cycle_detected", MSG_CYCLE)
    ELSE Ok(op)

\* add_dependency_tasks that leaves a Completed or Cancelled task alone.
add_dependency_tasks_M(tk, blocker_status, blocked_id) ==
    IF blocker_status # COMPLETED
       /\ tk[blocked_id].status \notin {COMPLETED, CANCELLED}
    THEN [tk EXCEPT ![blocked_id].status = BLOCKED]
    ELSE tk

\* add_dependency_tasks that resets the blocked task to NotStarted when the
\* blocker is Completed.
add_dependency_tasks_Reset(tk, blocker_status, blocked_id) ==
    IF blocker_status # COMPLETED
    THEN [tk EXCEPT ![blocked_id].status = BLOCKED]
    ELSE [tk EXCEPT ![blocked_id].status = NOT_STARTED]

\* Lines 186-198: insert the row, auto-block, commit. blocker_status is the
\* status held by the blocker object loaded at line 158.
add_dependency_tasks(tk, blocker_status, blocked_id) ==
    IF blocker_status # COMPLETED
    THEN [tk EXCEPT ![blocked_id].status = BLOCKED]
    ELSE tk

add_dependency_deps(dp, blocker_id, blocked_id) ==
    dp (+) SetToBag({<<blocked_id, blocker_id>>})

\* add_dependency that adds the row to the session before it looks the two
\* tasks up, and commits it with the not-found answer.
add_dependency_EarlyInsert(blocker_id, blocked_id) ==
    LET chk == add_dependency_check(tasks, deps, blocker_id, blocked_id)
    IN  /\ BagCardinality(deps) < MaxDeps
        /\ IF chk.success
           THEN /\ deps'  = add_dependency_deps(deps, blocker_id, blocked_id)
                /\ tasks' = add_dependency_tasks(tasks, tasks[blocker_id].status,
                                                 blocked_id)
                /\ ret'   = [chk EXCEPT !.blocked_status = tasks'[blocked_id].status]
           ELSE /\ ret' = chk
                /\ deps' = IF chk.error \in {"blocker_not_found", "blocked_not_found"}
                           THEN add_dependency_deps(deps, blocker_id, blocked_id)
                           ELSE deps
                /\ UNCHANGED tasks
        /\ UNCHANGED calls

add_dependency(blocker_id, blocked_id) ==
    LET chk == add_dependency_check(tasks, deps, blocker_id, blocked_id)
    IN  /\ chk.success => BagCardinality(deps) < MaxDeps
        /\ IF chk.success
           THEN /\ deps'  = add_dependency_deps(deps, blocker_id, blocked_id)
                /\ tasks' = add_dependency_tasks(tasks, tasks[blocker_id].status,
                                                 blocked_id)
                /\ ret'   = [chk EXCEPT !.blocked_status = tasks'[blocked_id].status]
           ELSE /\ ret' = chk
                /\ UNCHANGED <<tasks, deps>>
        /\ UNCHANGED calls

\* ------------------------------------------------------------------------
\* DAGManager._try_unblock_task / remove_dependency / update_downstream_status
\* ------------------------------------------------------------------------

\* AllBlockersCompleted with "any" for "all": one Completed blocker is enough.
AllBlockersCompleted_M(tk, dp, task_id) ==
    \/ BlockersOf(dp, task_id) = {}
    \/ \E d \in BlockersOf(dp, task_id) :
        ~(Exists(tk, d) /\ tk[d].status # COMPLETED)

\* True when no existing blocker of the task is incomplete (lines 276-279).
AllBlockersCompleted(tk, dp, task_id) ==
    \A d \in BlockersOf(dp, task_id) :
        ~(Exists(tk, d) /\ tk[d].status # COMPLETED)

\* try_unblock_task that starts the task it unblocks.
try_unblock_task_Start(tk, dp, task_id) ==
    IF AllBlockersCompleted(tk, dp, task_id)
    THEN [unblocked |-> TRUE,  tasks |-> [tk EXCEPT ![task_id].status = IN_PROGRESS]]
    ELSE [unblocked |-> FALSE, tasks |-> tk]

\* try_unblock_task that reports the unblock without writing the status.
try_unblock_task_M(tk, dp, task_id) ==
    IF AllBlockersCompleted(tk, dp, task_id)
    THEN [unblocked |-> TRUE,  tasks |-> tk]
    ELSE [unblocked |-> FALSE, tasks |-> tk]

\* The pair (returned flag, tasks table after the call).
try_unblock_task(tk, dp, task_id) ==
    IF AllBlockersCompleted(tk, dp, task_id)
    THEN [unblocked |-> TRUE,  tasks |-> [tk EXCEPT ![task_id].status = NOT_STARTED]]
    ELSE [unblocked |-> FALSE, tasks |-> tk]

\* remove_dependency_deps that deletes every row of the blocked task.
remove_dependency_deps_AllOfTask(dp, blocker_id, blocked_id) ==
    dp (-) [e \in {x \in Edges(dp) : x[1] = blocked_id} |-> CopiesIn(e, dp)]

\* The rows without one row of the pair: what the commit of line 227 leaves.
remove_dependency_deps(dp, blocker_id, blocked_id) ==
    dp (-) SetToBag({<<blocked_id, blocker_id>>})

\* The rows the queries of _try_unblock_task return between db.delete (line
\* 220) and the commit. The session is made in backend/app/core/database.py;
\* the deleted row is taken as already gone, as the removal is specified
\* (delete the edge, then re-evaluate the formerly blocked task).
pending_delete_view(dp, blocker_id, blocked_id) ==
    remove_dependency_deps(dp, blocker_id, blocked_id)

\* remove_dependency without the re-evaluation of the blocked task.
remove_dependency_NoReeval(blocker_id, blocked_id) ==
    LET op   == "remove_dependency"
    IN
    /\ IF Rows(deps, blocked_id, blocker_id) = 0
       THEN /\ ret' = Err(op, "dependency_not_found", "")
            /\ UNCHANGED <<tasks, deps>>
       ELSE /\ deps' = remove_dependency_deps(deps, blocker_id, blocked_id)
            /\ tasks' = tasks
            /\ ret' = Ok(op)
    /\ UNCHANGED calls

\* remove_dependency that re-evaluates the blocked task before it looks for
\* the row, also when there is none.
remove_dependency_ReevalFirst(blocker_id, blocked_id) ==
    LET op   == "remove_dependency"
        tk   == IF Exists(tasks, blocked_id) /\ tasks[blocked_id].status = BLOCKED
                THEN try_unblock_task(tasks,
                         pending_delete_view(deps, blocker_id, blocked_id),
                         blocked_id).tasks
                ELSE tasks
    IN
    /\ IF Rows(deps, blocked_id, blocker_id) = 0
       THEN /\ ret' = Err(op, "dependency_not_found", "")
            /\ tasks' = tk
            /\ UNCHANGED deps
       ELSE /\ deps' = remove_dependency_deps(deps, blocker_id, blocked_id)
            /\ tasks' = tk
            /\ ret' = Ok(op)
    /\ UNCHANGED calls

\* remove_dependency that re-evaluates the blocked task whatever its status.
remove_dependency_AnyStatus(blocker_id, blocked_id) ==
    LET op   == "remove_dependency"
    IN
    /\ IF Rows(deps, blocked_id, blocker_id) = 0
       THEN /\ ret' = Err(op, "dependency_not_found", "")
            /\ UNCHANGED <<tasks, deps>>
       ELSE /\ deps' = remove_dependency_deps(deps, blocker_id, blocked_id)
            /\ tasks' = IF Exists(tasks, blocked_id)
                        THEN try_unblock_task(tasks,
                                 pending_delete_view(deps, blocker_id, blocked_id),
                                 blocked_id).tasks
                        ELSE tasks
            /\ ret' = Ok(op)
    /\ UNCHANGED calls

remove_dependency(blocker_id, blocked_id) ==
    LET op   == "remove_dependency"
    IN
    /\ IF Rows(deps, blocked_id, blocker_id) = 0
       THEN /\ ret' = Err(op, "dependency_not_found", "")
            /\ UNCHANGED <<tasks, deps>>
       ELSE /\ deps' = remove_dependency_deps(deps, blocker_id, blocked_id)
            /\ tasks' = IF Exists(tasks, blocked_id)
                           /\ tasks[blocked_id].status = BLOCKED
                        THEN try_unblock_task(tasks,
                                 pending_delete_view(deps, blocker_id, blocked_id),
                                 blocked_id).tasks
                        ELSE tasks
            /\ ret' = Ok(op)
    /\ UNCHANGED calls

\* DownstreamList without the filter on depends_on_id: every task with a row.
RECURSIVE DownstreamList_All(_, _, _)
DownstreamList_All(dp, t, i) ==
    IF i > Len(IdOrder) THEN <<>>
    ELSE (IF BlockersOf(dp, IdOrder[i]) # {} THEN <<IdOrder[i]>> ELSE <<>>)
         \o DownstreamList_All(dp, t, i + 1)

\* The downstream rows of a task, as the list of their task_id.
RECURSIVE DownstreamList(_, _, _)
DownstreamList(dp, t, i) ==
    IF i > Len(IdOrder) THEN <<>>
    ELSE Repeat(IdOrder[i], Rows(dp, IdOrder[i], t)) \o DownstreamList(dp, t, i + 1)

\* downstreamLoop without the test of the dependent's status: every
\* dependent is re-evaluated.
RECURSIVE downstreamLoop_AnyStatus(_, _, _, _, _)
downstreamLoop_AnyStatus(tk, dp, downstream, i, unblocked) ==
    IF i > Len(downstream) THEN [tasks |-> tk, unblocked |-> unblocked]
    ELSE IF Exists(tk, downstream[i])
         THEN LET r == try_unblock_task(tk, dp, downstream[i])
              IN  downstreamLoop_AnyStatus(r.tasks, dp, downstream, i + 1,
                                 IF r.unblocked
                                 THEN Append(unblocked, downstream[i])
                                 ELSE unblocked)
         ELSE downstreamLoop_AnyStatus(tk, dp, downstream, i + 1, unblocked)

\* The loop of lines 246-255 from position i on: the tasks table and the
\* unblocked list it ends with.
RECURSIVE downstreamLoop(_, _, _, _, _)
downstreamLoop(tk, dp, downstream, i, unblocked) ==
    IF i > Len(downstream) THEN [tasks |-> tk, unblocked |-> unblocked]
    ELSE IF Exists(tk, downstream[i]) /\ tk[downstream[i]].status = BLOCKED
         THEN LET r == try_unblock_task(tk, dp, downstream[i])
              IN  downstreamLoop(r.tasks, dp, downstream, i + 1,
                                 IF r.unblocked
                                 THEN Append(unblocked, downstream[i])
                                 ELSE unblocked)
         ELSE downstreamLoop(tk, dp, downstream, i + 1, unblocked)

update_downstream_status(completed_task_id) ==
    LET r == downstreamLoop(tasks, deps, DownstreamList(deps, completed_task_id, 1),
                            1, <<>>)
    IN  /\ tasks' = r.tasks
        /\ ret' = [Ok("update_downstream_status")
                      EXCEPT !.unblocked = r.unblocked]
        /\ UNCHANGED <<deps, calls>>

\* ------------------------------------------------------------------------
\* DAGManager.validate_status_change
\* ------------------------------------------------------------------------

\* incomplete_blockers without the status test: every blocker is named.
RECURSIVE incomplete_blockers_M(_, _, _)
incomplete_blockers_M(tk, depList, i) ==
    IF i > Len(depList) THEN <<>>
    ELSE (IF Exists(tk, depList[i]) THEN <<depList[i]>> ELSE <<>>)
         \o incomplete_blockers_M(tk, depList, i + 1)

\* incomplete_blockers of lines 306-310, from position i of the rows on
RECURSIVE incomplete_blockers(_, _, _)
incomplete_blockers(tk, depList, i) ==
    IF i > Len(depList) THEN <<>>
    ELSE (IF Exists(tk, depList[i]) /\ tk[depList[i]].status # COMPLETED
          THEN <<depList[i]>> ELSE <<>>)
         \o incomplete_blockers(tk, depList, i + 1)

\* validate_status_change that denies only when a blocker is incomplete.
validate_status_change_result_M(tk, dp, task_id, new_status) ==
    LET op   == "validate_status_change"
    IN
    IF ~Exists(tk, task_id) THEN Err(op, "", "Task not found")
    ELSE IF /\ tk[task_id].status = BLOCKED
            /\ new_status \in {IN_PROGRESS, COMPLETED}
            /\ incomplete_blockers(tk, DepList(dp, task_id, 1), 1) # <<>>
         THEN [Err(op, "", "Cannot proceed: blocked by")
                  EXCEPT !.names = incomplete_blockers(tk, DepList(dp, task_id, 1), 1)]
         ELSE Ok(op)

\* validate_status_change that looks at the blockers instead of the stored
\* status: it denies a start or a completion while a blocker is incomplete.
validate_status_change_result_ByBlockers(tk, dp, task_id, new_status) ==
    LET op   == "validate_status_change"
    IN
    IF ~Exists(tk, task_id) THEN Err(op, "", "Task not found")
    ELSE IF /\ new_status \in {IN_PROGRESS, COMPLETED}
            /\ \/ tk[task_id].status = BLOCKED
               \/ incomplete_blockers(tk, DepList(dp, task_id, 1), 1) # <<>>
         THEN [Err(op, "", "Cannot proceed: blocked by")
                  EXCEPT !.names = incomplete_blockers(tk, DepList(dp, task_id, 1), 1)]
         ELSE Ok(op)

\* The returned pair: success is the allow flag, message and names the reason.
validate_status_change_result(tk, dp, task_id, new_status) ==
    LET op   == "validate_status_change"
    IN
    IF ~Exists(tk, task_id) THEN Err(op, "", "Task not found")
    ELSE IF tk[task_id].status = BLOCKED /\ new_status \in {IN_PROGRESS, COMPLETED}
         THEN [Err(op, "", "Cannot proceed: blocked by")
                  EXCEPT !.names = incomplete_blockers(tk, DepList(dp, task_id, 1), 1)]
         ELSE Ok(op)

validate_status_change(task_id, new_status) ==
    /\ ret' = validate_status_change_result(tasks, deps, task_id, new_status)
    /\ UNCHANGED <<tasks, deps, calls>>

\* ------------------------------------------------------------------------
\* TaskService.create_task / update_task_status
\* ------------------------------------------------------------------------

\* A new row with a fresh id (uuid4), status NOT_STARTED. The fresh id is the
\* next unused one of IdOrder: which unused id uuid4 yields is a renaming.
create_task(task_id, project_id) ==
    /\ ~Exists(tasks, task_id)
    /\ task_id = IdOrder[Cardinality(DOMAIN tasks) + 1]
    /\ tasks' = [t \in DOMAIN tasks \cup {task_id} |->
                    IF t = task_id
                    THEN [status |-> NOT_STARTED, project_id |-> project_id]
                    ELSE tasks[t]]
    /\ ret' = Ok("create_task")
    /\ UNCHANGED <<deps, calls>>

\* The status is written as given; _check_downstream_tasks only logs.
update_task_status(task_id, new_status) ==
    LET op   == "update_task_status"
    IN
    /\ IF ~Exists(tasks, task_id)
       THEN /\ ret' = Err(op, "ValueError", "Task not found")
            /\ UNCHANGED tasks
       ELSE /\ tasks' = [tasks EXCEPT ![task_id].status = new_status]
            /\ ret' = Ok(op)
    /\ UNCHANGED <<deps, calls>>

\* ------------------------------------------------------------------------
\* TaskService.add_dependency / _has_circular_dependency
\* ------------------------------------------------------------------------

\* The task ids of the specification of TaskService.add_dependency: one more
\* than TaskIds, so that a task stands outside a diamond of three.
ServiceTaskIds == TaskIds \cup {"D"}

ServiceOrder == IdOrder \o <<"D">>

\* db.query(TaskDependency).filter(TaskDependency.task_id == t).all(), as
\* the list of depends_on_id, one per row
RECURSIVE ServiceDepList(_, _, _)
ServiceDepList(dp, t, i) ==
    IF i > Len(ServiceOrder) THEN <<>>
    ELSE Repeat(ServiceOrder[i], Rows(dp, t, ServiceOrder[i]))
         \o ServiceDepList(dp, t, i + 1)

\* dfs(current_id) of _has_circular_dependency: the returned flag, and the
\* visited set the code keeps in a closure.
RECURSIVE circular_dfs(_, _, _, _), circular_dfsLoop(_, _, _, _, _)
circular_dfs(dp, task_id, current_id, visited) ==
    IF current_id \in visited THEN [found |-> TRUE, visited |-> visited]
    ELSE IF current_id = task_id THEN [found |-> TRUE, visited |-> visited]
    ELSE circular_dfsLoop(dp, task_id, ServiceDepList(dp, current_id, 1), 1,
                          visited \cup {current_id})

\* for dep in dependencies: if dfs(dep.depends_on_id): return True
circular_dfsLoop(dp, task_id, dependencies, i, visited) ==
    IF i > Len(dependencies) THEN [found |-> FALSE, visited |-> visited]
    ELSE LET r == circular_dfs(dp, task_id, dependencies[i], visited)
         IN  IF r.found THEN r
             ELSE circular_dfsLoop(dp, task_id, dependencies, i + 1, r.visited)

has_circular_dependency(dp, task_id, depends_on_id) ==
    circular_dfs(dp, task_id, depends_on_id, {}).found

MSG_NOT_FOUND == "One or both tasks not found"
MSG_CIRCULAR  == "Circular dependency detected"

\* The ValueError the call raises, or success when the row may be added.
task_service_add_dependency_check(tk, dp, task_id, depends_on_id) ==
    LET op == "TaskService.add_dependency"
    IN
    IF ~Exists(tk, task_id) \/ ~Exists(tk, depends_on_id)
    THEN Err(op, "ValueError", MSG_NOT_FOUND)
    ELSE IF has_circular_dependency(dp, task_id, depends_on_id)
         THEN Err(op, "ValueError", MSG_CIRCULAR)
         ELSE Ok(op)

\* The row is added and committed; no status is written.
task_service_add_dependency(task_id, depends_on_id) ==
    LET chk == task_service_add_dependency_check(tasks, deps, task_id, depends_on_id)
    IN  /\ chk.success => BagCardinality(deps) < MaxDeps
        /\ ret' = [chk EXCEPT !.input = <<task_id, depends_on_id>>]
        /\ deps' = IF chk.success
                   THEN deps (+) SetToBag({<<task_id, depends_on_id>>})
                   ELSE deps
        /\ UNCHANGED <<tasks, calls>>

\* ------------------------------------------------------------------------
\* Sequential specification: one call at a time
\* ------------------------------------------------------------------------

\* The projects the caller creates a task in: the first two tasks share a
\* project, the last one is in either.
CallerProjects(t) == IF t = IdOrder[Len(IdOrder)] THEN Projects ELSE {"p1"}

\* A worker with no call in flight.
IdleCall == [pc |-> "idle", blocker_id |-> "", blocked_id |-> "", blocker_status |-> ""]

NoCalls == [w \in Workers |-> IdleCall]

Init ==
    /\ tasks = << >>
    /\ deps = EmptyBag
    /\ ret = NoRet
    /\ calls = NoCalls

Next ==
    \/ \E t \in TaskIds : \E p \in CallerProjects(t) : create_task(t, p)
    \/ \E a \in TaskIds, b \in TaskIds : add_dependency(a, b)
    \/ \E a \in TaskIds, b \in TaskIds : remove_dependency(a, b)
    \/ \E t \in TaskIds : update_downstream_status(t)
    \/ \E t \in TaskIds, s \in TaskStatus : validate_status_change(t, s)
    \/ \E t \in TaskIds, s \in TaskStatus : update_task_status(t, s)

Spec == Init /\ [][Next]_vars

\* ------------------------------------------------------------------------
\* Sequential specification with completion as the only external status
\* change: the engine's calls, and update_task_status(t, COMPLETED)
\* ------------------------------------------------------------------------

NextCompletion ==
    \/ \E t \in TaskIds : \E p \in CallerProjects(t) : create_task(t, p)
    \/ \E a \in TaskIds, b \in TaskIds : add_dependency(a, b)
    \/ \E a \in TaskIds, b \in TaskIds : remove_dependency(a, b)
    \/ \E t \in TaskIds : update_downstream_status(t)
    \/ \E t \in TaskIds : update_task_status(t, COMPLETED)

SpecCompletion == Init /\ [][NextCompletion]_vars

\* ------------------------------------------------------------------------
\* Sequential specification with every task in one project: the calls that
\* change the edges
\* ------------------------------------------------------------------------

NextProject ==
    \/ \E t \in TaskIds : create_task(t, "p1")
    \/ \E a \in TaskIds, b \in TaskIds : add_dependency(a, b)
    \/ \E a \in TaskIds, b \in TaskIds : remove_dependency(a, b)
    \/ \E t \in TaskIds : update_task_status(t, COMPLETED)

SpecProject == Init /\ [][NextProject]_vars

\* ------------------------------------------------------------------------
\* Specification of TaskService.add_dependency, one call at a time
\* ------------------------------------------------------------------------

\* Every task exists; the rows are those the calls add.
InitService ==
    /\ tasks = [t \in ServiceTaskIds |-> [status |-> NOT_STARTED, project_id |-> "p1"]]
    /\ deps = EmptyBag
    /\ ret = NoRet
    /\ calls = NoCalls

NextService ==
    \E t \in ServiceTaskIds, d \in ServiceTaskIds : task_service_add_dependency(t, d)

SpecService == InitService /\ [][NextService]_vars

\* ------------------------------------------------------------------------
\* Specification of the static methods: detect_cycles and topological_sort
\* applied to the task lists of a database holding any graph
\* ------------------------------------------------------------------------

\* The lists of tasks a caller passes: any tasks, each once, in any order.
TaskLists ==
    {l \in UNION {[1..n -> TaskIds] : n \in 0..Cardinality(TaskIds)} :
        \A i \in DOMAIN l, j \in DOMAIN l : i # j => l[i] # l[j]}

\* new_dependency: None, or a pair (task_id, dependency_id) of listed tasks.
NewDependencies(taskList) ==
    {<<>>} \cup (SeqToSet(taskList) \X SeqToSet(taskList))

detect_cycles_call(taskList, new_dependency) ==
    /\ ret' = [Ok("detect_cycles")
                  EXCEPT !.input = <<taskList, new_dependency>>,
                         !.cycle = detect_cycles(deps, taskList, new_dependency)]
    /\ UNCHANGED <<tasks, deps, calls>>

topological_sort_call(taskList) ==
    /\ ret' = [Ok("topological_sort")
                  EXCEPT !.input = <<taskList>>,
                         !.order = topological_sort(deps, taskList)]
    /\ UNCHANGED <<tasks, deps, calls>>

\* The rows a table can hold: a task on another task. Both add_dependency
\* methods refuse a row of a task on itself.
RowPairs == {e \in TaskIds \X TaskIds : e[1] # e[2]}

\* Every task exists; the dependency rows are any set of at most MaxDeps
\* pairs, cycles included.
InitGraph ==
    /\ tasks = [t \in TaskIds |-> [status |-> NOT_STARTED, project_id |-> "p1"]]
    /\ deps \in {SetToBag(E) : E \in {F \in SUBSET RowPairs :
                                        Cardinality(F) <= MaxDeps}}
    /\ ret = NoRet
    /\ calls = NoCalls

NextGraph ==
    \/ \E l \in TaskLists : \E nd \in NewDependencies(l) : detect_cycles_call(l, nd)
    \/ \E l \in TaskLists : topological_sort_call(l)

SpecGraph == InitGraph /\ [][NextGraph]_vars

\* ------------------------------------------------------------------------
\* Concurrent specification: add_dependency calls of several workers
\* ------------------------------------------------------------------------


\* Rows the calls past their cycle check are about to insert.
Pending == Cardinality({w \in Workers : calls[w].pc = "checked"})

\* Lines 149-184 of a worker's call: the reads and the cycle check. A failed
\* validation returns at once; otherwise the call holds the blocker it loaded
\* (line 158) and goes on to the insert.
add_dependency_begin(w, blocker_id, blocked_id) ==
    LET chk == add_dependency_check(tasks, deps, blocker_id, blocked_id)
    IN  /\ calls[w].pc = "idle"
        /\ chk.success => BagCardinality(deps) + Pending < MaxDeps
        /\ IF chk.success
           THEN /\ calls' = [calls EXCEPT ![w] =
                       [pc |-> "checked", blocker_id |-> blocker_id,
                        blocked_id |-> blocked_id,
                        blocker_status |-> tasks[blocker_id].status]]
                /\ UNCHANGED ret
           ELSE /\ ret' = chk
                /\ UNCHANGED calls
        /\ UNCHANGED <<tasks, deps>>

\* Lines 186-205 of a worker's call: insert, auto-block, commit, return.
add_dependency_commit(w) ==
    /\ calls[w].pc = "checked"
    /\ deps'  = add_dependency_deps(deps, calls[w].blocker_id, calls[w].blocked_id)
    /\ tasks' = add_dependency_tasks(tasks, calls[w].blocker_status,
                                     calls[w].blocked_id)
    /\ ret'   = [Ok("add_dependency")
                    EXCEPT !.blocked_status = tasks'[calls[w].blocked_id].status]
    /\ calls' = [calls EXCEPT ![w] = IdleCall]

\* Every task exists, all in one project, before the workers start.
InitConc ==
    /\ tasks = [t \in TaskIds |-> [status |-> NOT_STARTED, project_id |-> "p1"]]
    /\ deps = EmptyBag
    /\ ret = NoRet
    /\ calls = NoCalls

NextConc ==
    \/ \E w \in Workers, a \in TaskIds, b \in TaskIds : add_dependency_begin(w, a, b)
    \/ \E w \in Workers : add_dependency_commit(w)

SpecConc == InitConc /\ [][NextConc]_vars

\* ------------------------------------------------------------------------
\* Concurrent specification with completions: a worker adds a dependency
\* while another completes a task and then reports the completion
\* ------------------------------------------------------------------------

\* TaskService.update_task_status(task_id, COMPLETED) of a worker, which
\* goes on to DAGManager.update_downstream_status(task_id).
complete_task(w, task_id) ==
    /\ calls[w].pc = "idle"
    /\ Exists(tasks, task_id)
    /\ tasks' = [tasks EXCEPT ![task_id].status = COMPLETED]
    /\ ret' = Ok("update_task_status")
    /\ calls' = [calls EXCEPT ![w] =
            [pc |-> "completed", blocker_id |-> task_id,
             blocked_id |-> "", blocker_status |-> ""]]
    /\ UNCHANGED deps

\* DAGManager.update_downstream_status for the task the worker completed:
\* it reads the committed rows.
report_completion(w) ==
    LET r == downstreamLoop(tasks, deps,
                            DownstreamList(deps, calls[w].blocker_id, 1), 1, <<>>)
    IN  /\ calls[w].pc = "completed"
        /\ tasks' = r.tasks
        /\ ret' = [Ok("update_downstream_status") EXCEPT !.unblocked = r.unblocked]
        /\ calls' = [calls EXCEPT ![w] = IdleCall]
        /\ UNCHANGED deps

NextRace ==
    \/ \E w \in Workers, a \in TaskIds, b \in TaskIds : add_dependency_begin(w, a, b)
    \/ \E w \in Workers : add_dependency_commit(w)
    \/ \E w \in Workers, t \in TaskIds : complete_task(w, t)
    \/ \E w \in Workers : report_completion(w)

SpecRace == InitConc /\ [][NextRace]_vars

\* ------------------------------------------------------------------------
\* Vocabulary of the properties
\* ------------------------------------------------------------------------

\* Pairs <<x, y>> with a path x -> ... -> y of at least one edge.
RECURSIVE Closure(_, _)
Closure(R, n) ==
    IF n = 0 THEN R
    ELSE Closure(R \cup {<<x, z>> \in TaskIds \X TaskIds :
                            \E y \in TaskIds : <<x, y>> \in R /\ <<y, z>> \in R},
                 n - 1)

Paths(dp) == Closure(Edges(dp), Cardinality(TaskIds))

\* The edge set, as a directed graph blocked -> blocker, contains a cycle.
HasCycle(dp) == \E t \in TaskIds : <<t, t>> \in Paths(dp)

\* A set of edges contains a cycle.
CyclicEdges(E) == \E t \in TaskIds : <<t, t>> \in Closure(E, Cardinality(TaskIds))

\* The edges of the graph built from a task list: the rows of its tasks.
GraphEdges(dp, taskList) == {e \in Edges(dp) : e[1] \in SeqToSet(taskList)}

\* The edges with the hypothetical one.
WithNew(E, new_dependency) ==
    IF new_dependency = <<>> THEN E ELSE E \cup {new_dependency}

\* The nodes reached from the nodes of S along the edges of E, S included.
RECURSIVE ReachableFrom(_, _)
ReachableFrom(E, S) ==
    LET N == S \cup {e[2] : e \in {f \in E : f[1] \in S}}
    IN  IF N = S THEN S ELSE ReachableFrom(E, N)

\* The positions of a task in a list.
Positions(order, t) == {i \in DOMAIN order : order[i] = t}

\* The rows hold a diamond: z is reached from x directly and through y.
Diamond(dp) ==
    \E x \in TaskIds, y \in TaskIds, z \in TaskIds :
        /\ x # y /\ y # z /\ x # z
        /\ {<<x, y>>, <<y, z>>, <<x, z>>} \subseteq Edges(dp)

\* The blockers of a task that are not Completed.
IncompleteBlockers(tk, dp, t) ==
    {d \in BlockersOf(dp, t) : Exists(tk, d) /\ tk[d].status # COMPLETED}

Returned == \A w \in Workers : calls[w].pc = "idle"

\* ------------------------------------------------------------------------
\* Properties
\* ------------------------------------------------------------------------

\* C1: after any sequence of add_dependency / remove_dependency calls made
\* one at a time, over tasks of any projects, the edge set has no cycle.
C1_Acyclic == ~HasCycle(deps)

\* C2: when add_dependency calls of several workers interleave, the
\* committed edge set is acyclic once every call has returned.
C2_ConcurrentAcyclic == Returned => ~HasCycle(deps)

\* C3: an add_dependency whose edge blocked -> blocker would close a cycle
\* (a path leads from the blocker back to the blocked task) fails with
\* cycle_detected and changes neither the edges nor any status.
C3_CycleRejected ==
    [][\A a \in TaskIds, b \in TaskIds :
         (/\ ret'.op = "add_dependency"
          /\ Exists(tasks, a) /\ Exists(tasks, b) /\ a # b
          /\ <<a, b>> \in Paths(deps)
          /\ add_dependency(a, b))
         => (ret'.error = "cycle_detected" /\ UNCHANGED <<tasks, deps>>)]_vars

\* C4 as stated: add_dependency(A, A) fails with an error kind of its own,
\* distinct from cycle_detected, and changes nothing.
C4_SelfDependencyKind ==
    [][\A a \in TaskIds :
         (ret'.op = "add_dependency" /\ add_dependency(a, a))
         => (~ret'.success /\ ret'.error # "cycle_detected"
             /\ UNCHANGED <<tasks, deps>>)]_vars

\* C4 amended: add_dependency(A, A) fails for every A, existing or not, with
\* the error cycle_detected and the message "Task cannot depend on itself",
\* and changes neither the edges nor any status.
C4_SelfDependencyRejected ==
    [][\A a \in TaskIds :
         (ret'.op = "add_dependency" /\ add_dependency(a, a))
         => (/\ ret' = Err("add_dependency", "cycle_detected", MSG_SELF)
             /\ UNCHANGED <<tasks, deps>>)]_vars

\* A self-dependency was rejected while the id named no task.
C4_Witness ==
    /\ ret.op = "add_dependency" /\ ret.message = MSG_SELF
    /\ DOMAIN tasks = {}

\* C5: a successful add_dependency whose blocker is not Completed leaves the
\* blocked task Blocked, whatever its status was, and returns that status.
C5_BlockingOnAdd ==
    [][\A a \in TaskIds, b \in TaskIds :
         (/\ ret'.op = "add_dependency" /\ ret'.success
          /\ Exists(tasks, a) /\ tasks[a].status # COMPLETED
          /\ add_dependency(a, b))
         => (/\ tasks'[b].status = BLOCKED
             /\ ret'.blocked_status = BLOCKED
             /\ Rows(deps', b, a) = Rows(deps, b, a) + 1)]_vars

\* An add_dependency succeeded and returned Blocked for a task that still
\* has a Completed blocker of an earlier call.
C5_Witness ==
    /\ ret.op = "add_dependency" /\ ret.success /\ ret.blocked_status = BLOCKED
    /\ \E b \in DOMAIN tasks :
         /\ tasks[b].status = BLOCKED
         /\ IncompleteBlockers(tasks, deps, b) # {}
         /\ IncompleteBlockers(tasks, deps, b) # BlockersOf(deps, b)

\* C6: when B depends on A, B is Blocked, A is Completed and every other
\* blocker of B is Completed, update_downstream_status(A) returns B among
\* the unblocked tasks and B becomes NotStarted.
C6_UnblockOnCompletion ==
    [][\A a \in TaskIds, b \in TaskIds :
         (/\ ret'.op = "update_downstream_status"
          /\ Exists(tasks, a) /\ Exists(tasks, b)
          /\ Rows(deps, b, a) > 0
          /\ tasks[b].status = BLOCKED
          /\ tasks[a].status = COMPLETED
          /\ IncompleteBlockers(tasks, deps, b) = {}
          /\ update_downstream_status(a))
         => (/\ b \in SeqToSet(ret'.unblocked)
             /\ tasks'[b].status = NOT_STARTED)]_vars

\* update_downstream_status returned an unblocked task, now NotStarted.
C6_Witness ==
    /\ ret.op = "update_downstream_status"
    /\ \E b \in SeqToSet(ret.unblocked) :
         /\ tasks[b].status = NOT_STARTED
         /\ BlockersOf(deps, b) # {}

\* C7: update_downstream_status leaves a Blocked task Blocked, and out of
\* the returned list, as long as one of its blockers is not Completed; a
\* task it moves out of Blocked has no incomplete blocker.
C7_PartialUnblock ==
    [][\A a \in TaskIds, b \in TaskIds :
         (/\ ret'.op = "update_downstream_status"
          /\ Exists(tasks, b) /\ tasks[b].status = BLOCKED
          /\ update_downstream_status(a))
         => (/\ IncompleteBlockers(tasks, deps, b) # {}
                => (/\ tasks'[b].status = BLOCKED
                    /\ b \notin SeqToSet(ret'.unblocked))
             /\ tasks'[b].status # BLOCKED
                => IncompleteBlockers(tasks, deps, b) = {})]_vars

\* After update_downstream_status a task with a Completed and an incomplete
\* blocker is still Blocked and was not returned.
C7_Witness ==
    /\ ret.op = "update_downstream_status"
    /\ \E b \in DOMAIN tasks :
         /\ tasks[b].status = BLOCKED
         /\ b \notin SeqToSet(ret.unblocked)
         /\ IncompleteBlockers(tasks, deps, b) # {}
         /\ \E d \in BlockersOf(deps, b) : tasks[d].status = COMPLETED

\* C8: validate_status_change(B, InProgress or Completed) on a Blocked task
\* with an incomplete blocker denies and names exactly the incomplete
\* blockers; on a task that is NotStarted (unblocked) it allows.
C8_GuardDenies ==
    [][\A t \in TaskIds, s \in {IN_PROGRESS, COMPLETED} :
         (/\ ret'.op = "validate_status_change"
          /\ Exists(tasks, t) /\ validate_status_change(t, s))
         => (/\ (tasks[t].status = BLOCKED
                 /\ IncompleteBlockers(tasks, deps, t) # {})
                => (/\ ~ret'.success
                    /\ SeqToSet(ret'.names) = IncompleteBlockers(tasks, deps, t))
             /\ tasks[t].status = NOT_STARTED => ret'.success)]_vars

\* A validation was denied with a reason naming a blocker, while another
\* blocker of the task is Completed and is not named.
C8_Witness ==
    /\ ret.op = "validate_status_change" /\ ~ret.success
    /\ ret.names # <<>>
    /\ \E t \in DOMAIN tasks :
         /\ tasks[t].status = BLOCKED
         /\ SeqToSet(ret.names) = IncompleteBlockers(tasks, deps, t)
         /\ SeqToSet(ret.names) # BlockersOf(deps, t)

\* C9 as stated: for a Blocked task and a proposed status of InProgress or
\* Completed, validate_status_change allows when every blocker is Completed
\* (or there is none).
C9_AllowsWhenBlockersDone ==
    [][\A t \in TaskIds, s \in {IN_PROGRESS, COMPLETED} :
         (/\ ret'.op = "validate_status_change"
          /\ Exists(tasks, t) /\ tasks[t].status = BLOCKED
          /\ IncompleteBlockers(tasks, deps, t) = {}
          /\ validate_status_change(t, s))
         => ret'.success]_vars

\* C9 amended: for a task whose stored status is Blocked and a proposed
\* status of InProgress or Completed, validate_status_change denies whether
\* or not a blocker is incomplete; when every blocker is Completed (or there
\* is none) the reason names no blocker.
C9_DeniesWhileBlocked ==
    [][\A t \in TaskIds, s \in {IN_PROGRESS, COMPLETED} :
         (/\ ret'.op = "validate_status_change"
          /\ Exists(tasks, t) /\ tasks[t].status = BLOCKED
          /\ validate_status_change(t, s))
         => (/\ ~ret'.success
             /\ ret'.message = "Cannot proceed: blocked by"
             /\ IncompleteBlockers(tasks, deps, t) = {} => ret'.names = <<>>)]_vars

\* A validation was denied with a reason naming nobody: the task was Blocked
\* with a blocker, all of its blockers Completed.
C9_Witness ==
    /\ ret.op = "validate_status_change" /\ ~ret.success
    /\ ret.message = "Cannot proceed: blocked by" /\ ret.names = <<>>
    /\ \E t \in DOMAIN tasks :
         /\ tasks[t].status = BLOCKED
         /\ BlockersOf(deps, t) # {}
         /\ IncompleteBlockers(tasks, deps, t) = {}

\* C10: no operation moves a task from Blocked into InProgress or Completed
\* while one of its dependencies is not Completed.
C10_NoStartWhileBlocked ==
    [][\A t \in TaskIds :
         (/\ Exists(tasks, t) /\ tasks[t].status = BLOCKED
          /\ IncompleteBlockers(tasks, deps, t) # {})
         => tasks'[t].status \notin {IN_PROGRESS, COMPLETED}]_vars

\* The operations of DAGManager that write to the database or validate.
EngineOps ==
    {"add_dependency", "remove_dependency", "update_downstream_status",
     "validate_status_change"}

\* C11: there is at most one row per (blocked, blocker) pair, and an
\* add_dependency for a pair that has a row fails with dependency_exists
\* and changes neither the rows nor any status.
C11_DuplicateRejected ==
    [][/\ \A a \in TaskIds, b \in TaskIds : Rows(deps', b, a) <= 1
       /\ \A a \in TaskIds, b \in TaskIds :
            (/\ ret'.op = "add_dependency"
             /\ Rows(deps, b, a) > 0
             /\ add_dependency(a, b))
            => (/\ ret' = Err("add_dependency", "dependency_exists", "")
                /\ UNCHANGED <<tasks, deps>>)]_vars

\* A duplicate was rejected while the table holds rows.
C11_Witness ==
    /\ ret.op = "add_dependency" /\ ret.error = "dependency_exists"
    /\ BagCardinality(deps) >= 2

\* C12: a successful remove_dependency on a Blocked task leaves it
\* NotStarted when every remaining blocker is Completed (or none remains)
\* and Blocked when a remaining blocker is not Completed.
C12_RemoveReevaluates ==
    [][\A a \in TaskIds, b \in TaskIds :
         (/\ ret'.op = "remove_dependency" /\ ret'.success
          /\ Exists(tasks, b) /\ tasks[b].status = BLOCKED
          /\ remove_dependency(a, b))
         => (/\ Rows(deps', b, a) = Rows(deps, b, a) - 1
             /\ tasks'[b].status =
                  IF IncompleteBlockers(tasks, deps', b) = {}
                  THEN NOT_STARTED ELSE BLOCKED)]_vars

\* A removal succeeded and left a task NotStarted whose remaining blockers
\* are all Completed.
C12_Witness ==
    /\ ret.op = "remove_dependency" /\ ret.success
    /\ \E b \in DOMAIN tasks :
         /\ tasks[b].status = NOT_STARTED
         /\ BlockersOf(deps, b) # {}
         /\ IncompleteBlockers(tasks, deps, b) = {}

\* C13: update_downstream_status(A) changes the status of no task other
\* than the tasks with a row on A: a task that depends on A only through
\* another task keeps its status.
C13_NotTransitive ==
    [][\A a \in TaskIds, y \in TaskIds :
         (/\ ret'.op = "update_downstream_status"
          /\ Exists(tasks, y) /\ Rows(deps, y, a) = 0
          /\ update_downstream_status(a))
         => (tasks'[y] = tasks[y] /\ y \notin SeqToSet(ret'.unblocked))]_vars

\* update_downstream_status unblocked a task X, and a task Y that depends
\* on X and on nothing else is still Blocked.
C13_Witness ==
    /\ ret.op = "update_downstream_status"
    /\ \E x \in SeqToSet(ret.unblocked), y \in DOMAIN tasks :
         /\ BlockersOf(deps, y) = {x}
         /\ tasks[x].status = NOT_STARTED
         /\ tasks[y].status = BLOCKED

\* C14: add_dependency, remove_dependency, update_downstream_status and
\* validate_status_change write no status other than Blocked and NotStarted.
C14_EngineWrites ==
    [][ret'.op \in EngineOps
       => \A t \in DOMAIN tasks :
            tasks'[t].status # tasks[t].status
            => tasks'[t].status \in {BLOCKED, NOT_STARTED}]_vars

\* An engine call has just unblocked or blocked a task while another task
\* is Completed and a third is InProgress or Cancelled.
C14_Witness ==
    /\ ret.op \in {"remove_dependency", "add_dependency"} /\ ret.success
    /\ \E t \in DOMAIN tasks : tasks[t].status \in {BLOCKED, NOT_STARTED}
    /\ \E t \in DOMAIN tasks : tasks[t].status = COMPLETED
    /\ \E t \in DOMAIN tasks : tasks[t].status \in {IN_PROGRESS, CANCELLED}

\* C18: remove_dependency for a pair without a row fails with
\* dependency_not_found and changes neither the rows nor any status, also
\* when the blocked task is Blocked with every blocker Completed.
C18_RemoveNotFound ==
    [][\A a \in TaskIds, b \in TaskIds :
         (/\ ret'.op = "remove_dependency"
          /\ Rows(deps, b, a) = 0
          /\ remove_dependency(a, b))
         => (/\ ret' = Err("remove_dependency", "dependency_not_found", "")
             /\ UNCHANGED <<tasks, deps>>)]_vars

\* A removal was answered dependency_not_found while a task is Blocked with
\* a blocker and every blocker of it Completed.
C18_Witness ==
    /\ ret.op = "remove_dependency" /\ ret.error = "dependency_not_found"
    /\ \E b \in DOMAIN tasks :
         /\ tasks[b].status = BLOCKED
         /\ BlockersOf(deps, b) # {}
         /\ BlockersOf(deps, b) # DOMAIN tasks \ {b}
         /\ IncompleteBlockers(tasks, deps, b) = {}

\* C19: add_dependency for two different ids of which one names no task
\* fails with blocker_not_found or blocked_not_found, inserts no row and
\* changes no status.
C19_TaskNotFound ==
    [][\A a \in TaskIds, b \in TaskIds :
         (/\ ret'.op = "add_dependency"
          /\ a # b /\ (~Exists(tasks, a) \/ ~Exists(tasks, b))
          /\ add_dependency(a, b))
         => (/\ ret' = Err("add_dependency",
                           IF ~Exists(tasks, a) THEN "blocker_not_found"
                                                ELSE "blocked_not_found", "")
             /\ UNCHANGED <<tasks, deps>>)]_vars

\* The blocked task was not found while rows and Blocked tasks exist.
C19_Witness ==
    /\ ret.op = "add_dependency" /\ ret.error = "blocked_not_found"
    /\ deps # EmptyBag
    /\ DOMAIN tasks # TaskIds

\* C15: in every state reached through add_dependency, remove_dependency,
\* external completion and update_downstream_status, a task with a blocker
\* that is not Completed is Blocked.
C15_BlockedConsistency ==
    \A t \in DOMAIN tasks :
        IncompleteBlockers(tasks, deps, t) # {} => tasks[t].status = BLOCKED

\* C16: for an acyclic graph built from a task list, every blocker stands
\* in the list topological_sort returns, at an earlier position than every
\* task that depends on it.
C16_TopologicalOrder ==
    [][\A l \in TaskLists :
         (/\ ret'.op = "topological_sort" /\ ret'.input = <<l>>
          /\ ~CyclicEdges(GraphEdges(deps, l))
          /\ topological_sort_call(l))
         => \A e \in GraphEdges(deps, l) :
              /\ Positions(ret'.order, e[1]) # {}
              /\ Positions(ret'.order, e[2]) # {}
              /\ \A i \in Positions(ret'.order, e[1]),
                    j \in Positions(ret'.order, e[2]) : j < i]_vars

\* topological_sort returned all tasks for an acyclic graph with a diamond.
C16_Witness ==
    /\ ret.op = "topological_sort"
    /\ SeqToSet(ret.order) = TaskIds
    /\ Diamond(deps) /\ ~HasCycle(deps)

\* C17: topological_sort on a graph that contains a cycle fails with an
\* error and returns no ordering.
C17_TopologicalOrderFails ==
    [][\A l \in TaskLists :
         (/\ ret'.op = "topological_sort" /\ ret'.input = <<l>>
          /\ CyclicEdges(GraphEdges(deps, l))
          /\ topological_sort_call(l))
         => (~ret'.success /\ ret'.order = <<>>)]_vars

\* C20: detect_cycles returns true exactly when the graph built from the
\* task list, with the hypothetical edge if one is given, contains a cycle.
C20_DetectCycles ==
    [][\A l \in TaskLists : \A nd \in NewDependencies(l) :
         (/\ ret'.op = "detect_cycles" /\ ret'.input = <<l, nd>>
          /\ detect_cycles_call(l, nd))
         => ret'.cycle = CyclicEdges(WithNew(GraphEdges(deps, l), nd))]_vars

\* detect_cycles answered true on acyclic rows that hold a diamond: the
\* cycle goes through the hypothetical edge.
C20_Witness ==
    /\ ret.op = "detect_cycles" /\ ret.cycle
    /\ Diamond(deps) /\ ~HasCycle(deps)

\* C21: update_downstream_status returns exactly the tasks whose status it
\* changed from Blocked to NotStarted, each once; a task that was not
\* Blocked before the call is not modified and not returned, and a task
\* that stays Blocked is not returned.
C21_ReturnsExactlyUnblocked ==
    [][\A a \in TaskIds :
         (/\ ret'.op = "update_downstream_status"
          /\ update_downstream_status(a))
         => (/\ SeqToSet(ret'.unblocked) =
                  {t \in DOMAIN tasks : /\ tasks[t].status = BLOCKED
                                        /\ tasks'[t].status = NOT_STARTED}
             /\ Len(ret'.unblocked) = Cardinality(SeqToSet(ret'.unblocked))
             /\ \A t \in DOMAIN tasks :
                  tasks[t].status # BLOCKED
                  => (tasks'[t] = tasks[t] /\ t \notin SeqToSet(ret'.unblocked))
             /\ \A t \in DOMAIN tasks :
                  tasks'[t].status = BLOCKED => t \notin SeqToSet(ret'.unblocked))]_vars

\* update_downstream_status returned one dependent of a Completed task and
\* left out another dependent of the same task.
C21_Witness ==
    /\ ret.op = "update_downstream_status"
    /\ \E x \in SeqToSet(ret.unblocked), y \in DOMAIN tasks, a \in DOMAIN tasks :
         /\ y \notin SeqToSet(ret.unblocked)
         /\ a \in BlockersOf(deps, x) \cap BlockersOf(deps, y)
         /\ tasks[a].status = COMPLETED
         /\ tasks[x].status = NOT_STARTED

\* C22: a successful add_dependency whose blocker is Completed inserts the
\* row, leaves every status as it was, the blocked task's included, and
\* returns the blocked task's unchanged status.
C22_CompletedBlockerKeepsStatus ==
    [][\A a \in TaskIds, b \in TaskIds :
         (/\ ret'.op = "add_dependency" /\ ret'.success
          /\ Exists(tasks, a) /\ Exists(tasks, b)
          /\ tasks[a].status = COMPLETED
          /\ add_dependency(a, b))
         => (/\ Rows(deps', b, a) = Rows(deps, b, a) + 1
             /\ tasks' = tasks
             /\ ret'.blocked_status = tasks[b].status)]_vars

\* add_dependency inserted the only row there is, on a Completed blocker,
\* and returned the status InProgress the blocked task still has.
C22_Witness ==
    /\ ret.op = "add_dependency" /\ ret.success
    /\ BagCardinality(deps) = 1
    /\ \E a \in DOMAIN tasks, b \in DOMAIN tasks :
         /\ Rows(deps, b, a) = 1
         /\ tasks[a].status = COMPLETED
         /\ tasks[b].status = IN_PROGRESS
         /\ ret.blocked_status = IN_PROGRESS

\* C23: TaskService.add_dependency(task_id, depends_on_id) on existing
\* tasks is refused as circular exactly when depends_on_id is task_id or
\* task_id is reached from depends_on_id along the rows; otherwise the row
\* is added, also when a node is reached from depends_on_id by two paths.
C23_CircularCheckExact ==
    [][\A t \in ServiceTaskIds, d \in ServiceTaskIds :
         (/\ ret'.op = "TaskService.add_dependency" /\ ret'.input = <<t, d>>
          /\ task_service_add_dependency(t, d))
         => (/\ (ret'.message = MSG_CIRCULAR)
                  <=> (t \in ReachableFrom(Edges(deps), {d}))
             /\ ret'.success <=> (t \notin ReachableFrom(Edges(deps), {d}))
             /\ ret'.success => Rows(deps', t, d) = Rows(deps, t, d) + 1)]_vars

\* C24: after TaskService.update_task_status(A, COMPLETED) returns, a task
\* that depends on A, was Blocked and has no other incomplete blocker is no
\* longer Blocked.
C24_StatusUpdateUnblocks ==
    [][\A a \in TaskIds, b \in TaskIds :
         (/\ ret'.op = "update_task_status" /\ ret'.success
          /\ Exists(tasks, a) /\ Exists(tasks, b)
          /\ Rows(deps, b, a) > 0
          /\ tasks[b].status = BLOCKED
          /\ IncompleteBlockers(tasks, deps, b) \subseteq {a}
          /\ update_task_status(a, COMPLETED))
         => tasks'[b].status # BLOCKED]_vars

\* C25: with every task in one project, add_dependency and
\* remove_dependency calls made one at a time keep the edge set acyclic,
\* and add_dependency succeeds only when no path leads from the blocker
\* back to the blocked task.
C25_SameProjectAcyclic ==
    /\ [](~CyclicEdges(Edges(deps)))
    /\ [][\A a \in TaskIds, b \in TaskIds :
            (/\ ret'.op = "add_dependency" /\ ret'.success
             /\ add_dependency(a, b))
            => <<a, b>> \notin Paths(deps)]_vars

\* A third edge was added to a chain of two in a single project, without a
\* cycle.
C25_Witness ==
    /\ ret.op = "add_dependency" /\ ret.success
    /\ \A t \in DOMAIN tasks : tasks[t].project_id = "p1"
    /\ Diamond(deps)
    /\ ~HasCycle(deps)

\* C26: when add_dependency calls interleave with completions, each
\* followed by update_downstream_status, then once every call has returned
\* a Blocked task has at least one blocker that is not Completed.
C26_NoLostUnblock ==
    Returned =>
        \A b \in DOMAIN tasks :
            tasks[b].status = BLOCKED => IncompleteBlockers(tasks, deps, b) # {}

\* C27: when add_dependency calls for one pair run concurrently, the
\* committed rows never hold two rows of the same (blocked, blocker) pair.
C27_NoDuplicateRows ==
    \A t \in TaskIds, d \in TaskIds : Rows(deps, t, d) <= 1

\* C28: a successful add_dependency adds one row of the pair (blocked,
\* blocker) and a successful remove_dependency deletes one row of the pair,
\* and no other row changes; neither writes the status of a task other than
\* the blocked task, so the blocker's status is never written.
C28_EdgeMutationFrame ==
    [][\A a \in TaskIds, b \in TaskIds :
         (/\ ret'.op \in {"add_dependency", "remove_dependency"} /\ ret'.success
          /\ \/ ret'.op = "add_dependency" /\ add_dependency(a, b)
             \/ ret'.op = "remove_dependency" /\ remove_dependency(a, b))
         => (/\ \A e \in TaskIds \X TaskIds :
                  Rows(deps', e[1], e[2]) =
                      Rows(deps, e[1], e[2])
                      + (IF e # <<b, a>> THEN 0
                         ELSE IF ret'.op = "add_dependency" THEN 1 ELSE -1)
             /\ DOMAIN tasks' = DOMAIN tasks
             /\ \A t \in DOMAIN tasks \ {b} : tasks'[t] = tasks[t])]_vars

\* remove_dependency succeeded and left rows of two tasks behind, both
\* still Blocked.
C28_Witness ==
    /\ ret.op = "remove_dependency" /\ ret.success
    /\ \E x \in DOMAIN tasks, y \in DOMAIN tasks :
         /\ x # y
         /\ BlockersOf(deps, x) # {} /\ BlockersOf(deps, y) # {}
         /\ tasks[x].status = BLOCKED /\ tasks[y].status = BLOCKED

\* C29: remove_dependency on a task whose status is not Blocked deletes the
\* row and leaves every status unchanged, that task's included.
C29_RemoveKeepsNonBlocked ==
    [][\A a \in TaskIds, b \in TaskIds :
         (/\ ret'.op = "remove_dependency" /\ ret'.success
          /\ Exists(tasks, b) /\ tasks[b].status # BLOCKED
          /\ remove_dependency(a, b))
         => (/\ Rows(deps', b, a) = Rows(deps, b, a) - 1
             /\ tasks' = tasks)]_vars

\* remove_dependency deleted the last row between two tasks, neither of
\* which is NotStarted or Blocked afterwards: the blocked one was not
\* Blocked before, or it would be NotStarted now.
C29_Witness ==
    /\ ret.op = "remove_dependency" /\ ret.success
    /\ deps = EmptyBag
    /\ DOMAIN tasks = {IdOrder[1], IdOrder[2]}
    /\ \A t \in DOMAIN tasks : tasks[t].status \in {IN_PROGRESS, COMPLETED, CANCELLED}

\* C30: validate_status_change writes no row and no status; for an existing
\* task it denies exactly when the stored status is Blocked and the
\* proposed status is InProgress or Completed, so a task that is not
\* Blocked is allowed every status even with incomplete blockers.
C30_ValidateReadsStatusOnly ==
    [][\A t \in TaskIds, s \in TaskStatus :
         (/\ ret'.op = "validate_status_change"
          /\ Exists(tasks, t)
          /\ validate_status_change(t, s))
         => (/\ UNCHANGED <<tasks, deps>>
             /\ ret'.success
                  <=> ~(tasks[t].status = BLOCKED /\ s \in {IN_PROGRESS, COMPLETED}))]_vars

\* validate_status_change allowed a change while no task is Blocked and a
\* task has an incomplete blocker.
C30_Witness ==
    /\ ret.op = "validate_status_change" /\ ret.success
    /\ \A t \in DOMAIN tasks : tasks[t].status # BLOCKED
    /\ \E t \in DOMAIN tasks : IncompleteBlockers(tasks, deps, t) # {}

====
